---- MODULE Spec2Model ----
(***************************************************************************)
(* Model of training_mgmnt/static/js/attendance_ekyc.js: the EKYC widget.  *)
(* State: the parts of the DOM the script reads and writes, the timers it  *)
(* has set, the async click handlers suspended at an await, and the POST   *)
(* requests it has sent.  One action per handler step (a step runs from    *)
(* one await point to the next, as on the browser's single UI thread).     *)
(***************************************************************************)
EXTENDS Naturals, Sequences, FiniteSets, Bags

\* Number of rows of #ekyc_table tbody (bound of the model).
NRows == 2

Rows == 1..NRows

(***************************************************************************)
(* Text.  A text that the script normalises (trim, toLowerCase) is a       *)
(* sequence of one-character strings; captions, which are only written,    *)
(* are plain strings.                                                      *)
(***************************************************************************)
Upper == <<"A","B","C","D","E","F","G","H","I","J","K","L","M",
           "N","O","P","Q","R","S","T","U","V","W","X","Y","Z">>
Lower == <<"a","b","c","d","e","f","g","h","i","j","k","l","m",
           "n","o","p","q","r","s","t","u","v","w","x","y","z">>
WhiteSpace == {" ", "\t", "\n"}

LowerChar(c) ==
  IF \E i \in 1..Len(Upper) : Upper[i] = c
  THEN Lower[CHOOSE i \in 1..Len(Upper) : Upper[i] = c]
  ELSE c

\* String.prototype.toLowerCase
ToLowerCase(s) == [i \in 1..Len(s) |-> LowerChar(s[i])]

\* String.prototype.trim
Trim(s) ==
  LET keep == {i \in 1..Len(s) : s[i] \notin WhiteSpace}
  IN IF keep = {} THEN <<>>
     ELSE LET lo == CHOOSE i \in keep : \A j \in keep : i <= j
              hi == CHOOSE i \in keep : \A j \in keep : j <= i
          IN SubSeq(s, lo, hi)

T_verified == <<"v","e","r","i","f","i","e","d">>
T_Verified == <<"V","e","r","i","f","i","e","d">>
T_Recorded == <<"R","e","c","o","r","d","e","d">>
T_Pending  == <<"P","e","n","d","i","n","g">>
T_VERIFIED == <<"V","E","R","I","F","I","E","D">>
T_RECORDED == <<"R","E","C","O","R","D","E","D">>
T_PadVerified == <<" ","V","e","r","i","f","i","e","d"," ">>
T_Empty == <<>>

\* Variant of IsVerifiedText: the comparison without trim().
IsVerifiedTextNoTrim(s) == ToLowerCase(s) = T_verified

\* r.querySelector('.ekyc-status').textContent.trim().toLowerCase() === 'verified'
IsVerifiedText(s) == ToLowerCase(Trim(s)) = T_verified

(***************************************************************************)
(* JavaScript values of the response fields: t is the type tag, v the text *)
(* of a string (empty for the other types).                                *)
(***************************************************************************)
Undefined == [t |-> "undefined", v |-> <<>>]
JsNull    == [t |-> "null", v |-> <<>>]
JsTrue    == [t |-> "true", v |-> <<>>]
JsFalse   == [t |-> "false", v |-> <<>>]
Str(s)    == [t |-> "string", v |-> s]

\* ToBoolean: undefined, null, false and the empty string are falsy.
Truthy(x) ==
  CASE x.t = "true" -> TRUE
    [] x.t = "string" -> x.v # <<>>
    [] OTHER -> FALSE

\* a || b
Or(a, b) == IF Truthy(a) THEN a ELSE b


(***************************************************************************)
(* The server's JSON bodies.  data is null or an object whose fields may   *)
(* be absent (undefined).  The bodies keep every branch of the script's    *)
(* tests: truthy and falsy success of several types, every combination of  *)
(* absent / empty / non-empty status_display and status, null fields,      *)
(* texts that do and do not normalise to "verified".                       *)
(***************************************************************************)
Body(success, status_display, status) ==
  [isNull |-> FALSE, success |-> success,
   status_display |-> status_display, status |-> status]

\* JSON null.
NullData == [isNull |-> TRUE, success |-> Undefined,
             status_display |-> Undefined, status |-> Undefined]

StatusDisplayVals == {Undefined, Str(T_Empty), Str(T_PadVerified)}
StatusVals == {Undefined, Str(T_Empty), Str(T_RECORDED)}

Data ==
  {Body(JsTrue, sd, st) : sd \in StatusDisplayVals, st \in StatusVals}
  \cup {Body(Str(<<"o","k">>), Undefined, Str(T_VERIFIED)),
        Body(JsTrue, JsNull, JsNull)}
  \cup {NullData,
        Body(Undefined, Undefined, Undefined),
        Body(JsFalse, Undefined, Undefined),
        Body(Str(T_Empty), Str(T_PadVerified), Str(T_RECORDED))}

\* Variant of DataSuccess: if(data), without the test of data.success.
DataSuccessAnyObject(data) == ~data.isNull

\* data && data.success
DataSuccess(data) == ~data.isNull /\ Truthy(data.success)

\* Variant of StatusText: data.status || data.status_display || '<default>'.
StatusTextSwapped(data, dflt) == Or(Or(data.status, data.status_display), Str(dflt)).v

\* data.status_display || data.status || '<default>'
StatusText(data, dflt) == Or(Or(data.status_display, data.status), Str(dflt)).v

\* Server-rendered texts of .ekyc-status before any action.
InitLabels == {T_Pending, T_Verified}

\* row.dataset of the server-rendered rows.
Dataset(r) == [participantId |-> r,
               participantRole |-> IF r = 1 THEN "trainer" ELSE "trainee"]

VARIABLES
  present,          \* which elements the page has
  listeners,        \* the DOMContentLoaded handler installed the two listeners
  testBtnDisabled,  \* testBtn.disabled
  testStatus,       \* testStatus.textContent
  loaderVisible,    \* loader.style.display = 'block'
  wrapperVisible,   \* participantsWrapper.style.display = 'block'
  focus,            \* row whose record button has the focus, 0 for none
  testTimers,       \* pending 2000 ms timers of the connection test
  recordDisabled,   \* per row: .recordBtn disabled
  verifyDisabled,   \* per row: .verifyBtn disabled
  label,            \* per row: .ekyc-status textContent
  caption,          \* per row: .actionStatus textContent
  handlers,         \* bag of click handlers suspended at an await
  requests,         \* bag of the POST requests sent by fetch
  succeeded,        \* per row: the actions whose success branch has run
  clicked,          \* per row: the buttons on which a click event was dispatched
  doneVisible,      \* doneMsg.style.display = 'block'
  reloadTimers,     \* pending 900 ms timers of location.reload()
  reloaded          \* location.reload() has run: the page is gone

envVars == <<present, listeners>>
testVars == <<testBtnDisabled, testStatus, loaderVisible, wrapperVisible,
              focus, testTimers>>
rowVars == <<recordDisabled, verifyDisabled, label, caption>>
pageVars == <<doneVisible, reloadTimers, reloaded>>
vars == <<envVars, testVars, rowVars, handlers, requests, succeeded, clicked,
          pageVars>>

\* The DOM contract of the host page with every element in place.
AllPresent ==
  [root |-> TRUE, testBtn |-> TRUE, testStatus |-> TRUE, loader |-> TRUE,
   wrapper |-> TRUE, doneMsg |-> TRUE,
   actionStatus |-> [r \in Rows |-> TRUE], status |-> [r \in Rows |-> TRUE],
   recordBtn |-> [r \in Rows |-> TRUE], verifyBtn |-> [r \in Rows |-> TRUE]]

\* Variant of Installed: the delegated listener is registered before the
\* test of line 18.
InstalledBeforeGuard(p) == TRUE

\* Line 18: without the test button the handler returns before it registers
\* a listener.
Installed(p) == p.testBtn

\* The page after the DOMContentLoaded handler has run (lines 9-18), for a
\* page with the elements p whose rows are rendered with the disabled
\* attributes of recs and vers and the status texts of lbls; the
\* participants container is hidden until the connection test reveals it.
InitPage(p, recs, vers, lbls) ==
  /\ present = p
  /\ listeners = Installed(p)
  /\ testBtnDisabled = FALSE
  /\ testStatus = ""
  /\ loaderVisible = FALSE
  /\ wrapperVisible = FALSE
  /\ focus = 0
  /\ testTimers = 0
  /\ recordDisabled \in recs
  /\ verifyDisabled \in vers
  /\ label \in lbls
  /\ caption = [r \in Rows |-> ""]
  /\ handlers = EmptyBag
  /\ requests = EmptyBag
  /\ succeeded = [r \in Rows |-> {}]
  /\ clicked = [r \in Rows |-> {}]
  /\ doneVisible = FALSE
  /\ reloadTimers = 0
  /\ reloaded = FALSE

\* Rows as rendered for a participant without a fingerprint: record enabled,
\* verify disabled.
InitWith(p) ==
  InitPage(p, {[r \in Rows |-> FALSE]}, {[r \in Rows |-> TRUE]},
           [Rows -> InitLabels])

Init == InitWith(AllPresent)

\* A user can click a button that exists, is shown and is not disabled: the
\* browser dispatches no click event for a disabled button.
Shown == ~present.wrapper \/ wrapperVisible
CanClickRecord(r) == present.recordBtn[r] /\ Shown /\ ~recordDisabled[r]
CanClickVerify(r) == present.verifyBtn[r] /\ Shown /\ ~verifyDisabled[r]

\* Variant of SetCaption: document.querySelector('.actionStatus'), the first
\* caption of the document instead of the row's.
SetCaptionFirstMatch(r, text) ==
  IF present.actionStatus[1] THEN [caption EXCEPT ![1] = text] ELSE caption

\* if(statusEl) statusEl.textContent = text
SetCaption(r, text) ==
  IF present.actionStatus[r] THEN [caption EXCEPT ![r] = text] ELSE caption

\* const st = row.querySelector('.ekyc-status'); if(st) st.textContent = text
SetLabel(r, text) ==
  IF present.status[r] THEN [label EXCEPT ![r] = text] ELSE label

\* endpoint = root ? root.dataset.endpoint : window.location.href
Endpoint == IF present.root THEN "data-endpoint" ELSE "location.href"

\* The handler's closure at its first await: the row and what it read from it.
Handler(r, kind) ==
  [row |-> r, kind |-> kind, pc |-> "delay",
   pid |-> Dataset(r).participantId, role |-> Dataset(r).participantRole]

\* fetch(endpoint, {method:'POST', body: fd})
Request(h, action) ==
  [endpoint |-> Endpoint, method |-> "POST", action |-> action,
   participant_id |-> h.pid, participant_role |-> h.role]

Suspended(kind, pc) == {h \in BagToSet(handlers) : h.kind = kind /\ h.pc = pc}
Resume(h, pc) == (handlers (-) SetToBag({h})) (+) SetToBag({[h EXCEPT !.pc = pc]})
Finish(h) == handlers (-) SetToBag({h})

(***************************************************************************)
(* Test connection: lines 20-32.                                           *)
(***************************************************************************)
\* document.querySelector('.recordBtn:not([disabled])')
FirstRec ==
  LET en == {r \in Rows : present.recordBtn[r] /\ ~recordDisabled[r]}
  IN IF en = {} THEN 0 ELSE CHOOSE r \in en : \A q \in en : r <= q

TestClick ==
  /\ ~reloaded /\ present.testBtn /\ listeners /\ ~testBtnDisabled
  /\ testBtnDisabled' = TRUE
  /\ testStatus' = IF present.testStatus THEN "Testing..." ELSE testStatus
  /\ loaderVisible' = IF present.loader THEN TRUE ELSE loaderVisible
  /\ testTimers' = testTimers + 1
  /\ UNCHANGED <<envVars, clicked, wrapperVisible, focus, rowVars, handlers, requests,
                 succeeded, pageVars>>

\* Variant of TestTimerFire: the container is not revealed.
TestTimerFireNoReveal ==
  /\ ~reloaded /\ testTimers > 0
  /\ testTimers' = testTimers - 1
  /\ loaderVisible' = IF present.loader THEN FALSE ELSE loaderVisible
  /\ testStatus' = IF present.testStatus THEN "Connection succeeded!" ELSE testStatus
  /\ focus' = IF FirstRec # 0 THEN FirstRec ELSE focus
  /\ UNCHANGED <<envVars, clicked, testBtnDisabled, wrapperVisible, rowVars, handlers,
                 requests, succeeded, pageVars>>

\* Variant of TestTimerFire: the test POSTs a ping to the endpoint.
TestTimerFirePing ==
  /\ ~reloaded /\ testTimers > 0
  /\ testTimers' = testTimers - 1
  /\ loaderVisible' = IF present.loader THEN FALSE ELSE loaderVisible
  /\ testStatus' = IF present.testStatus THEN "Connection succeeded!" ELSE testStatus
  /\ wrapperVisible' = IF present.wrapper THEN TRUE ELSE wrapperVisible
  /\ focus' = IF FirstRec # 0 THEN FirstRec ELSE focus
  /\ requests' = requests (+) SetToBag({[endpoint |-> Endpoint, method |-> "POST",
                                         action |-> "ping", participant_id |-> 0,
                                         participant_role |-> ""]})
  /\ UNCHANGED <<envVars, clicked, testBtnDisabled, rowVars, handlers, succeeded, pageVars>>

TestTimerFire ==
  /\ ~reloaded /\ testTimers > 0
  /\ testTimers' = testTimers - 1
  /\ loaderVisible' = IF present.loader THEN FALSE ELSE loaderVisible
  /\ testStatus' = IF present.testStatus THEN "Connection succeeded!" ELSE testStatus
  /\ wrapperVisible' = IF present.wrapper THEN TRUE ELSE wrapperVisible
  /\ focus' = IF FirstRec # 0 THEN FirstRec ELSE focus
  /\ UNCHANGED <<envVars, clicked, testBtnDisabled, rowVars, handlers, requests,
                 succeeded, pageVars>>

(***************************************************************************)
(* Record fingerprint: lines 40-60.                                        *)
(***************************************************************************)
\* Variant of RecordClick: t.disabled = true is missing.
RecordClickNoDisable(r) ==
  /\ ~reloaded /\ CanClickRecord(r)
  /\ clicked' = [clicked EXCEPT ![r] = @ \cup {"record"}]
  /\ IF listeners
     THEN /\ caption' = SetCaption(r, " Recording...")
          /\ verifyDisabled' = IF present.verifyBtn[r]
                               THEN [verifyDisabled EXCEPT ![r] = TRUE]
                               ELSE verifyDisabled
          /\ handlers' = handlers (+) SetToBag({Handler(r, "record")})
          /\ UNCHANGED recordDisabled
     ELSE UNCHANGED <<caption, recordDisabled, verifyDisabled, handlers>>
  /\ UNCHANGED <<envVars, testVars, label, requests, succeeded, pageVars>>

\* Lines 35-45: a click on the record button of row r; with the delegated
\* listener installed, the handler runs up to its first await.
RecordClick(r) ==
  /\ ~reloaded /\ CanClickRecord(r)
  /\ clicked' = [clicked EXCEPT ![r] = @ \cup {"record"}]
  /\ IF listeners
     THEN /\ caption' = SetCaption(r, " Recording...")
          /\ recordDisabled' = [recordDisabled EXCEPT ![r] = TRUE]
          /\ verifyDisabled' = IF present.verifyBtn[r]
                               THEN [verifyDisabled EXCEPT ![r] = TRUE]
                               ELSE verifyDisabled
          /\ handlers' = handlers (+) SetToBag({Handler(r, "record")})
     ELSE UNCHANGED <<caption, recordDisabled, verifyDisabled, handlers>>
  /\ UNCHANGED <<envVars, testVars, label, requests, succeeded, pageVars>>

\* Lines 45-48: the 1500 ms timer fires, the request is built and sent.
RecordSend(h) ==
  /\ ~reloaded /\ h \in Suspended("record", "delay")
  /\ requests' = requests (+) SetToBag({Request(h, "record_fingerprint")})
  /\ handlers' = Resume(h, "fetch")
  /\ UNCHANGED <<envVars, clicked, testVars, rowVars, succeeded, pageVars>>

\* Lines 48-49: fetch resolved with a response; resp.json() is awaited.
RecordFetched(h) ==
  /\ ~reloaded /\ h \in Suspended("record", "fetch")
  /\ handlers' = Resume(h, "json")
  /\ UNCHANGED <<envVars, clicked, testVars, rowVars, requests, succeeded, pageVars>>

\* Variant of RecordCatch: the record button is re-enabled after an error.
RecordCatchRetry(h) ==
  /\ ~reloaded
  /\ h \in Suspended("record", "fetch") \cup Suspended("record", "json")
  /\ caption' = SetCaption(h.row, " Error")
  /\ recordDisabled' = [recordDisabled EXCEPT ![h.row] = FALSE]
  /\ handlers' = Finish(h)
  /\ UNCHANGED <<envVars, clicked, testVars, verifyDisabled, label,
                 requests, succeeded, pageVars>>

\* Variant of RecordCatch: the catch block re-enables the verify button.
RecordCatchEnablesVerify(h) ==
  /\ ~reloaded
  /\ h \in Suspended("record", "fetch") \cup Suspended("record", "json")
  /\ caption' = SetCaption(h.row, " Error")
  /\ verifyDisabled' = [verifyDisabled EXCEPT ![h.row] = FALSE]
  /\ handlers' = Finish(h)
  /\ UNCHANGED <<envVars, clicked, testVars, recordDisabled, label, requests, succeeded,
                 pageVars>>

\* Line 59: fetch or resp.json() rejected; the catch block runs.
RecordCatch(h) ==
  /\ ~reloaded
  /\ h \in Suspended("record", "fetch") \cup Suspended("record", "json")
  /\ caption' = SetCaption(h.row, " Error")
  /\ handlers' = Finish(h)
  /\ UNCHANGED <<envVars, clicked, testVars, recordDisabled, verifyDisabled, label,
                 requests, succeeded, pageVars>>

\* Lines 52-54: the success branch.
RecordSuccess(h, data) ==
  /\ label' = SetLabel(h.row, StatusText(data, T_Recorded))
  /\ caption' = SetCaption(h.row, " Fingerprint recorded")
  /\ verifyDisabled' = IF present.verifyBtn[h.row]
                       THEN [verifyDisabled EXCEPT ![h.row] = FALSE]
                       ELSE verifyDisabled
  /\ succeeded' = [succeeded EXCEPT ![h.row] = @ \cup {"record"}]

\* Lines 56-57: the else branch.
RecordFailure(h) ==
  /\ caption' = SetCaption(h.row, " Failed")
  /\ UNCHANGED <<label, verifyDisabled, succeeded>>

\* Lines 49-58: resp.json() resolved with data.
RecordResponse(h, data) ==
  /\ ~reloaded /\ h \in Suspended("record", "json")
  /\ IF DataSuccess(data) THEN RecordSuccess(h, data) ELSE RecordFailure(h)
  /\ handlers' = Finish(h)
  /\ UNCHANGED <<envVars, clicked, testVars, recordDisabled, requests, pageVars>>

(***************************************************************************)
(* Verify EKYC: lines 63-90.                                               *)
(***************************************************************************)
\* Lines 35-38, 63-68: a click on the verify button of row r; with the
\* delegated listener installed, the handler runs up to its first await.
VerifyClick(r) ==
  /\ ~reloaded /\ CanClickVerify(r)
  /\ clicked' = [clicked EXCEPT ![r] = @ \cup {"verify"}]
  /\ IF listeners
     THEN /\ caption' = SetCaption(r, " Verifying...")
          /\ verifyDisabled' = [verifyDisabled EXCEPT ![r] = TRUE]
          /\ recordDisabled' = IF present.recordBtn[r]
                               THEN [recordDisabled EXCEPT ![r] = TRUE]
                               ELSE recordDisabled
          /\ handlers' = handlers (+) SetToBag({Handler(r, "verify")})
     ELSE UNCHANGED <<caption, recordDisabled, verifyDisabled, handlers>>
  /\ UNCHANGED <<envVars, testVars, label, requests, succeeded, pageVars>>

\* Variant of VerifySend: the action field copied from the record branch.
VerifySendRecordAction(h) ==
  /\ ~reloaded /\ h \in Suspended("verify", "delay")
  /\ requests' = requests (+) SetToBag({Request(h, "record_fingerprint")})
  /\ handlers' = Resume(h, "fetch")
  /\ UNCHANGED <<envVars, clicked, testVars, rowVars, succeeded, pageVars>>

\* Lines 68-71: the 1500 ms timer fires, the request is built and sent.
VerifySend(h) ==
  /\ ~reloaded /\ h \in Suspended("verify", "delay")
  /\ requests' = requests (+) SetToBag({Request(h, "verify_ekyc")})
  /\ handlers' = Resume(h, "fetch")
  /\ UNCHANGED <<envVars, clicked, testVars, rowVars, succeeded, pageVars>>

\* Lines 71-72: fetch resolved with a response; resp.json() is awaited.
VerifyFetched(h) ==
  /\ ~reloaded /\ h \in Suspended("verify", "fetch")
  /\ handlers' = Resume(h, "json")
  /\ UNCHANGED <<envVars, clicked, testVars, rowVars, requests, succeeded, pageVars>>

\* Variant of VerifyCatch: the verify button is re-enabled after an error.
VerifyCatchRetry(h) ==
  /\ ~reloaded
  /\ h \in Suspended("verify", "fetch") \cup Suspended("verify", "json")
  /\ caption' = SetCaption(h.row, " Error")
  /\ verifyDisabled' = [verifyDisabled EXCEPT ![h.row] = FALSE]
  /\ handlers' = Finish(h)
  /\ UNCHANGED <<envVars, clicked, testVars, recordDisabled, label,
                 requests, succeeded, pageVars>>

\* Line 89: fetch or resp.json() rejected; the catch block runs.
VerifyCatch(h) ==
  /\ ~reloaded
  /\ h \in Suspended("verify", "fetch") \cup Suspended("verify", "json")
  /\ caption' = SetCaption(h.row, " Error")
  /\ handlers' = Finish(h)
  /\ UNCHANGED <<envVars, clicked, testVars, recordDisabled, verifyDisabled, label,
                 requests, succeeded, pageVars>>

\* Variant of AllVerified: all.some(...), one verified row is enough.
AllVerifiedSome(lbl) ==
  IF \E i \in Rows : present.status[i] /\ IsVerifiedText(lbl[i])
  THEN "true" ELSE "false"

\* Lines 79-80: all.every(r => r.querySelector('.ekyc-status').textContent...)
\* over the rows in document order, with the labels lbl: "true", "false", or
\* "throw" when the scan reaches a row without .ekyc-status.
RECURSIVE AllVerifiedFrom(_, _)
AllVerifiedFrom(lbl, i) ==
  IF i > NRows THEN "true"
  ELSE IF ~present.status[i] THEN "throw"
  ELSE IF IsVerifiedText(lbl[i]) THEN AllVerifiedFrom(lbl, i + 1)
  ELSE "false"

AllVerified(lbl) == AllVerifiedFrom(lbl, 1)

\* Variant of VerifySuccess: recordBtn.disabled = false at line 77.
VerifySuccessReenables(h, data) ==
  LET lbl == SetLabel(h.row, StatusText(data, T_Verified))
      all == AllVerified(lbl)
  IN /\ label' = lbl
     /\ caption' = IF all = "throw" THEN SetCaption(h.row, " Error")
                   ELSE SetCaption(h.row, " Verified")
     /\ recordDisabled' = IF present.recordBtn[h.row]
                          THEN [recordDisabled EXCEPT ![h.row] = FALSE]
                          ELSE recordDisabled
     /\ verifyDisabled' = [verifyDisabled EXCEPT ![h.row] = TRUE]
     /\ succeeded' = [succeeded EXCEPT ![h.row] = @ \cup {"verify"}]
     /\ doneVisible' = IF all = "true" /\ present.doneMsg THEN TRUE ELSE doneVisible
     /\ reloadTimers' = IF all = "true" THEN reloadTimers + 1 ELSE reloadTimers

\* Lines 75-84: the success branch; an exception of the scan is caught at
\* line 89 after the assignments of lines 75-78.
VerifySuccess(h, data) ==
  LET lbl == SetLabel(h.row, StatusText(data, T_Verified))
      all == AllVerified(lbl)
  IN /\ label' = lbl
     /\ caption' = IF all = "throw" THEN SetCaption(h.row, " Error")
                   ELSE SetCaption(h.row, " Verified")
     /\ recordDisabled' = IF present.recordBtn[h.row]
                          THEN [recordDisabled EXCEPT ![h.row] = TRUE]
                          ELSE recordDisabled
     /\ verifyDisabled' = [verifyDisabled EXCEPT ![h.row] = TRUE]
     /\ succeeded' = [succeeded EXCEPT ![h.row] = @ \cup {"verify"}]
     /\ doneVisible' = IF all = "true" /\ present.doneMsg THEN TRUE ELSE doneVisible
     /\ reloadTimers' = IF all = "true" THEN reloadTimers + 1 ELSE reloadTimers

\* Variant of VerifyFailure: the verify button is re-enabled for a retry.
VerifyFailureRetry(h) ==
  /\ caption' = SetCaption(h.row, " Failed")
  /\ verifyDisabled' = [verifyDisabled EXCEPT ![h.row] = FALSE]
  /\ UNCHANGED <<label, recordDisabled, succeeded, doneVisible, reloadTimers>>

\* Lines 86-87: the else branch.
VerifyFailure(h) ==
  /\ caption' = SetCaption(h.row, " Failed")
  /\ UNCHANGED <<label, recordDisabled, verifyDisabled, succeeded,
                 doneVisible, reloadTimers>>

\* Lines 72-88: resp.json() resolved with data.
VerifyResponse(h, data) ==
  /\ ~reloaded /\ h \in Suspended("verify", "json")
  /\ IF DataSuccess(data) THEN VerifySuccess(h, data) ELSE VerifyFailure(h)
  /\ handlers' = Finish(h)
  /\ UNCHANGED <<envVars, clicked, testVars, requests, reloaded>>

\* Line 83: a 900 ms timer fires and location.reload() unloads the page:
\* its timers, handlers and listeners are gone.
Reload ==
  /\ ~reloaded /\ reloadTimers > 0
  /\ reloaded' = TRUE
  /\ reloadTimers' = reloadTimers - 1
  /\ UNCHANGED <<envVars, clicked, testVars, rowVars, handlers, requests, succeeded,
                 doneVisible>>

\* The steps of the page, the bodies of the record responses drawn from
\* recordData.
NextWith(recordData) ==
  \/ TestClick
  \/ TestTimerFire
  \/ \E r \in Rows : RecordClick(r)
  \/ \E h \in BagToSet(handlers) : RecordSend(h)
  \/ \E h \in BagToSet(handlers) : RecordFetched(h)
  \/ \E h \in BagToSet(handlers) : RecordCatch(h)
  \/ \E h \in BagToSet(handlers), data \in recordData : RecordResponse(h, data)
  \/ \E r \in Rows : VerifyClick(r)
  \/ \E h \in BagToSet(handlers) : VerifySend(h)
  \/ \E h \in BagToSet(handlers) : VerifyFetched(h)
  \/ \E h \in BagToSet(handlers) : VerifyCatch(h)
  \/ \E h \in BagToSet(handlers), data \in Data : VerifyResponse(h, data)
  \/ Reload

Next == NextWith(Data)

Spec == Init /\ [][Next]_vars

(***************************************************************************)
(* Pages that lack elements of the DOM contract.                           *)
(***************************************************************************)
\* Line 12-18: no test button (and no container that hides the rows).
NoTestBtn == [AllPresent EXCEPT !.testBtn = FALSE, !.wrapper = FALSE]

\* Row r without its .ekyc-status, .actionStatus or .verifyBtn element.
NoStatus(r) == [AllPresent EXCEPT !.status[r] = FALSE]
NoActionStatus(r) == [AllPresent EXCEPT !.actionStatus[r] = FALSE]
NoVerifyBtn(r) == [AllPresent EXCEPT !.verifyBtn[r] = FALSE]

\* No #ekyc_root, #testStatus, #ekyc_loader and #ekyc_done_msg.
NoOptionals ==
  [AllPresent EXCEPT !.root = FALSE, !.testStatus = FALSE, !.loader = FALSE,
                     !.doneMsg = FALSE]

Doms ==
  {NoTestBtn, NoStatus(1), NoStatus(NRows), NoActionStatus(1), NoVerifyBtn(1),
   NoOptionals}

InitDom ==
  \E p \in Doms :
    InitPage(p, {[r \in Rows |-> FALSE]}, {[r \in Rows |-> TRUE]},
             [Rows -> {T_Pending}])

SpecDom == InitDom /\ [][Next]_vars

(***************************************************************************)
(* Properties.                                                             *)
(***************************************************************************)
\* Handlers of row r suspended at an await, with multiplicity.
InFlight(r) ==
  BagCardinality([h \in {x \in BagToSet(handlers) : x.row = r} |->
                    CopiesIn(h, handlers)])

\* Requests of the bag reqs for row r with the given action, with multiplicity.
SentIn(reqs, r, action) ==
  BagCardinality([q \in {x \in BagToSet(reqs) :
                           /\ x.action = action
                           /\ x.participant_id = Dataset(r).participantId} |->
                    CopiesIn(q, reqs)])

Sent(r, action) == SentIn(requests, r, action)

\* The response body has a truthy success.
SuccessBody(data) ==
  /\ ~data.isNull
  /\ data.success \notin {Undefined, JsNull, JsFalse, Str(<<>>)}

SuccessData == {data \in Data : SuccessBody(data)}
FailureData == Data \ SuccessData

\* The step ends a handler h of row r that awaited resp.json() or fetch.
Ends(h, r, kind) ==
  /\ h.row = r /\ h.kind = kind /\ h.pc \in {"fetch", "json"}
  /\ CopiesIn(h, handlers') < CopiesIn(h, handlers)

RecordSucceeds(r) ==
  \E h \in BagToSet(handlers) :
    Ends(h, r, "record") /\ \E data \in SuccessData : RecordResponse(h, data)
RecordFails(r) ==
  \E h \in BagToSet(handlers) :
    /\ Ends(h, r, "record")
    /\ \/ RecordCatch(h)
       \/ \E data \in FailureData : RecordResponse(h, data)
VerifySucceeds(r) ==
  \E h \in BagToSet(handlers) :
    Ends(h, r, "verify") /\ \E data \in SuccessData : VerifyResponse(h, data)
VerifyFails(r) ==
  \E h \in BagToSet(handlers) :
    /\ Ends(h, r, "verify")
    /\ \/ VerifyCatch(h)
       \/ \E data \in FailureData : VerifyResponse(h, data)

\* A step of a handler of row r: a click on one of its buttons or the
\* resumption of one of its handlers.
RowStep(r) ==
  \/ RecordClick(r)
  \/ VerifyClick(r)
  \/ \E h \in BagToSet(handlers) :
       /\ h.row = r
       /\ \/ RecordSend(h) \/ RecordFetched(h) \/ RecordCatch(h)
          \/ VerifySend(h) \/ VerifyFetched(h) \/ VerifyCatch(h)
          \/ \E data \in Data : RecordResponse(h, data) \/ VerifyResponse(h, data)

\* C1: a row's verify button is enabled, a verify handler of the row is
\* running or a verify_ekyc request of the row has been sent only if a
\* successful record response of that row has been processed; a record click
\* leaves the verify button disabled, and a verify button goes from disabled
\* to enabled only in the record-success step of its own row.
C1_VerifyAfterRecord ==
  /\ [](\A r \in Rows :
          \/ "record" \in succeeded[r]
          \/ /\ verifyDisabled[r]
             /\ \A h \in BagToSet(handlers) : ~(h.row = r /\ h.kind = "verify")
             /\ Sent(r, "verify_ekyc") = 0)
  /\ [][\A r \in Rows :
          /\ RecordClick(r) => verifyDisabled'[r]
          /\ (verifyDisabled[r] /\ ~verifyDisabled'[r]) => RecordSucceeds(r)]_vars

\* C1 witness: a verify_ekyc request of a row has been sent, after its record
\* succeeded.
C1_Witness ==
  \E r \in Rows : Sent(r, "verify_ekyc") = 1 /\ "record" \in succeeded[r]

\* C2: once a successful verify response of a row has been processed, both
\* buttons of the row are disabled, in that state and in every later one.
C2_VerifiedRowTerminal ==
  \A r \in Rows : "verify" \in succeeded[r] => recordDisabled[r] /\ verifyDisabled[r]

\* C2 witness: a row is verified while another row has a handler in flight.
C2_Witness ==
  \E r, q \in Rows : r # q /\ "verify" \in succeeded[r] /\ InFlight(q) = 1

\* Every row's status label in lbl, trimmed and lower-cased, is "verified".
EveryLabelVerified(lbl) == \A r \in Rows : ToLowerCase(Trim(lbl[r])) = T_verified

\* C3: a verify-success step shows the done message and schedules a reload
\* if and only if every row's label normalises to "verified" after the step;
\* no other step shows the message or schedules a reload.
C3_DoneIffAllVerified ==
  [][/\ \A r \in Rows :
          VerifySucceeds(r) =>
            /\ EveryLabelVerified(label') <=> (reloadTimers' = reloadTimers + 1)
            /\ EveryLabelVerified(label') => doneVisible'
            /\ ~EveryLabelVerified(label') => (doneVisible' = doneVisible)
     /\ (reloadTimers' > reloadTimers \/ (doneVisible' /\ ~doneVisible))
          => \E r \in Rows : VerifySucceeds(r)]_vars

\* C3 witness: the message is shown and a reload is pending, after every row
\* went through record and verify.
C3_Witness ==
  /\ doneVisible /\ reloadTimers = 1
  /\ \A r \in Rows : succeeded[r] = {"record", "verify"}

\* A step of a record handler of row r before its response is processed.
RecordPending(r) ==
  \/ RecordClick(r)
  \/ \E h \in BagToSet(handlers) :
       h.row = r /\ h.kind = "record" /\ (RecordSend(h) \/ RecordFetched(h))

\* C4: a failed record (falsy success, or a rejected fetch or JSON decode)
\* leaves the row's verify button disabled and its label as it was before
\* the click: no step of the handler from the click to the failure changes
\* the label or enables verify, and of the page the failing step changes
\* only the row's caption.
C4_RecordFailureFrame ==
  [][\A r \in Rows :
       /\ RecordPending(r) => verifyDisabled'[r] /\ label' = label
       /\ RecordFails(r) =>
            /\ verifyDisabled'[r]
            /\ label' = label
            /\ caption'[r] \in {" Failed", " Error"}
            /\ \A q \in Rows \ {r} : caption'[q] = caption[q]
            /\ UNCHANGED <<recordDisabled, verifyDisabled, requests, succeeded,
                           testVars, pageVars>>]_vars

\* C4 witness: a record of a row has failed.
C4_Witness ==
  \E r \in Rows :
    /\ caption[r] \in {" Failed", " Error"} /\ Sent(r, "verify_ekyc") = 0
    /\ verifyDisabled[r] /\ label[r] \in InitLabels

RowFailed(r) == caption[r] \in {" Failed", " Error"}

\* C5: once an action of a row has ended in " Failed" or " Error", both of
\* its buttons are disabled, it has no handler in flight, and no step changes
\* its caption or sends a request for it.
C5_NoRetry ==
  /\ [](\A r \in Rows :
          RowFailed(r) => recordDisabled[r] /\ verifyDisabled[r] /\ InFlight(r) = 0)
  /\ [][\A r \in Rows :
          RowFailed(r) =>
            /\ caption'[r] = caption[r]
            /\ SentIn(requests', r, "record_fingerprint") = Sent(r, "record_fingerprint")
            /\ SentIn(requests', r, "verify_ekyc") = Sent(r, "verify_ekyc")]_vars

\* C5 witness: a verify of a row has failed, after its record succeeded.
C5_Witness ==
  \E r \in Rows : RowFailed(r) /\ Sent(r, "verify_ekyc") = 1

\* C6: a row has at most one handler in flight, and while it has one both
\* of its buttons are disabled.
C6_OneActionPerRow ==
  \A r \in Rows :
    /\ InFlight(r) <= 1
    /\ InFlight(r) = 1 => recordDisabled[r] /\ verifyDisabled[r]

\* C6 witness: every row has a handler in flight.
C6_Witness == \A r \in Rows : InFlight(r) = 1

\* C7: a step of a handler of row r leaves the buttons, the label and the
\* caption of every other row as they were, and also that row's handlers,
\* requests and processed successes.
C7_RowsIndependent ==
  [][\A r \in Rows :
       RowStep(r) =>
         \A q \in Rows \ {r} :
           /\ recordDisabled'[q] = recordDisabled[q]
           /\ verifyDisabled'[q] = verifyDisabled[q]
           /\ label'[q] = label[q]
           /\ caption'[q] = caption[q]
           /\ succeeded'[q] = succeeded[q]
           /\ \A h \in BagToSet(handlers) \cup BagToSet(handlers') :
                h.row = q => CopiesIn(h, handlers') = CopiesIn(h, handlers)
           /\ \A a \in {"record_fingerprint", "verify_ekyc"} :
                SentIn(requests', q, a) = SentIn(requests, q, a)]_vars

\* C7 witness: two rows are in different stages of their actions.
C7_Witness ==
  \E r, q \in Rows :
    /\ caption[r] = " Verifying..." /\ caption[q] = " Recording..."
    /\ InFlight(r) = 1 /\ InFlight(q) = 1

\* A field of the body that is there, with a text (which may be empty).
PresentField(x) == x.t = "string"

\* A field of the body that is there, with a text that is not empty.
NonEmptyField(x) == x.t = "string" /\ x.v # <<>>

\* After a success step of row r of the given kind, the label of r is
\* Text(data, dflt) for the body data the step processed.
LabelIs(Text(_, _), r, kind, dflt) ==
  \A h \in BagToSet(handlers) :
    Ends(h, r, kind) =>
      \A data \in SuccessData :
        (IF kind = "record" THEN RecordResponse(h, data)
         ELSE VerifyResponse(h, data))
          => label'[r] = Text(data, dflt)

TextIfPresent(data, dflt) ==
  IF PresentField(data.status_display) THEN data.status_display.v
  ELSE IF PresentField(data.status) THEN data.status.v
  ELSE dflt

TextIfNonEmpty(data, dflt) ==
  IF NonEmptyField(data.status_display) THEN data.status_display.v
  ELSE IF NonEmptyField(data.status) THEN data.status.v
  ELSE dflt

\* C8 as stated: after a success response the row's label is status_display
\* if it is present (the empty string included), else status if it is
\* present, else "Recorded" (record) or "Verified" (verify).
C8_LabelFromPresentField ==
  [][\A r \in Rows :
       /\ LabelIs(TextIfPresent, r, "record", T_Recorded)
       /\ LabelIs(TextIfPresent, r, "verify", T_Verified)]_vars

\* C8 amended: after a success response the row's label is status_display
\* if it is present and not empty, else status if it is present and not
\* empty, else "Recorded" (record) or "Verified" (verify); an empty string
\* counts as absent.
C8_LabelFromNonEmptyField ==
  [][\A r \in Rows :
       /\ LabelIs(TextIfNonEmpty, r, "record", T_Recorded)
       /\ LabelIs(TextIfNonEmpty, r, "verify", T_Verified)]_vars

\* C8 witness: a row's verify succeeded and its label is the raw status of
\* the response, another row's record succeeded with the default label.
C8_Witness ==
  \E r, q \in Rows :
    /\ "verify" \in succeeded[r] /\ label[r] = T_VERIFIED
    /\ succeeded[q] = {"record"} /\ label[q] = T_Recorded

\* Timers fire: the 2000 ms timer of the connection test is not starved.
FairSpec == Spec /\ WF_vars(TestTimerFire)

\* C9: a click on the test button disables it and shows "Testing..."; the
\* status then eventually reads "Connection succeeded!" with the participants
\* container visible; the button is never re-enabled and is clicked at most
\* once.
C9_TestConnection ==
  /\ [][TestClick => testBtnDisabled' /\ testStatus' = "Testing..."]_vars
  /\ testBtnDisabled ~> (testStatus = "Connection succeeded!" /\ wrapperVisible)
  /\ [][testBtnDisabled => testBtnDisabled' /\ ~TestClick]_vars
  /\ [](testTimers <= 1)

\* C9 witness: the test has been clicked and has succeeded.
C9_Witness ==
  /\ testBtnDisabled /\ testTimers = 0
  /\ testStatus = "Connection succeeded!" /\ wrapperVisible

\* C10: neither step of the connection test sends a request or changes a
\* row's buttons, label or caption.
C10_TestFrame ==
  [][(TestClick \/ TestTimerFire) =>
       /\ requests' = requests
       /\ handlers' = handlers
       /\ UNCHANGED rowVars]_vars

\* C10 witness: the test has run to its end and no request has been sent.
C10_Witness ==
  /\ testBtnDisabled /\ testTimers = 0 /\ wrapperVisible
  /\ requests = EmptyBag
  /\ \A r \in Rows : ~recordDisabled[r] /\ verifyDisabled[r] /\ caption[r] = ""

\* C11: on a page without the test button no listener is installed: clicks
\* on record or verify buttons send no request, start no handler and leave
\* every button, label and caption as rendered.
C11_NoTestBtnNoSetup ==
  ~present.testBtn =>
    /\ ~listeners
    /\ requests = EmptyBag /\ handlers = EmptyBag
    /\ \A r \in Rows :
         /\ ~recordDisabled[r] /\ verifyDisabled[r]
         /\ label[r] = T_Pending /\ caption[r] = ""
         /\ succeeded[r] = {}
    /\ testStatus = "" /\ ~doneVisible /\ reloadTimers = 0

\* C11 witness: without the test button, a click event was dispatched on the
\* record button of every row.
C11_Witness ==
  ~present.testBtn /\ \A r \in Rows : "record" \in clicked[r]

\* C12: a missing element is skipped without a trace: on a page that lacks
\* an optional element, in the clicked row or in another one, every action
\* ends with the caption and the buttons it ends with on the full page; in
\* particular a verify response with a truthy success never ends with the
\* caption " Error".
C12_MissingElementSkipped ==
  [][\A r \in Rows :
       /\ RecordSucceeds(r) =>
            /\ present.actionStatus[r] => caption'[r] = " Fingerprint recorded"
            /\ present.verifyBtn[r] => ~verifyDisabled'[r]
            /\ recordDisabled'[r]
       /\ RecordFails(r) =>
            /\ present.actionStatus[r] => caption'[r] \in {" Failed", " Error"}
            /\ recordDisabled'[r] /\ verifyDisabled'[r]
       /\ VerifySucceeds(r) =>
            /\ present.actionStatus[r] => caption'[r] = " Verified"
            /\ caption'[r] # " Error"
            /\ recordDisabled'[r] /\ verifyDisabled'[r]
       /\ VerifyFails(r) =>
            /\ present.actionStatus[r] => caption'[r] \in {" Failed", " Error"}
            /\ recordDisabled'[r] /\ verifyDisabled'[r]]_vars

\* The action field of the request of a click of the given kind.
ActionOf(kind) == IF kind = "record" THEN "record_fingerprint" ELSE "verify_ekyc"

\* Handlers of row r of the given kind that wait for their 1500 ms delay.
Delayed(r, kind) ==
  BagCardinality([h \in {x \in BagToSet(handlers) :
                           x.row = r /\ x.kind = kind /\ x.pc = "delay"} |->
                    CopiesIn(h, handlers)])

\* C13: every request is a POST with the action of the clicked button and
\* the participant id and role of the row of that button; a clicked button
\* has exactly one request once its delay has elapsed and none before, and
\* a button that was not clicked has none.
C13_OneRequestPerClick ==
  /\ [](\A q \in BagToSet(requests) :
          /\ q.method = "POST"
          /\ \E r \in Rows, kind \in {"record", "verify"} :
               /\ q.action = ActionOf(kind)
               /\ kind \in clicked[r]
               /\ q.participant_id = Dataset(r).participantId
               /\ q.participant_role = Dataset(r).participantRole)
  /\ [](\A r \in Rows, kind \in {"record", "verify"} :
          Sent(r, ActionOf(kind)) + Delayed(r, kind)
            = IF kind \in clicked[r] THEN 1 ELSE 0)
  /\ [][/\ \A r \in Rows :
             (RecordClick(r) \/ VerifyClick(r)) => requests' = requests
        /\ requests' # requests =>
             \E h \in BagToSet(handlers) :
               /\ h.pc = "delay"
               /\ requests' = requests (+) SetToBag({Request(h, ActionOf(h.kind))})
               /\ CopiesIn(h, handlers') < CopiesIn(h, handlers)]_vars

\* C13 witness: both requests of every row have been sent.
C13_Witness ==
  \A r \in Rows : Sent(r, "record_fingerprint") = 1 /\ Sent(r, "verify_ekyc") = 1

\* The step ends a handler of row r of the given kind in its catch clause.
Throws(r, kind) ==
  \E h \in BagToSet(handlers) :
    /\ Ends(h, r, kind)
    /\ IF kind = "record" THEN RecordCatch(h) ELSE VerifyCatch(h)

\* The step ends a handler of row r of the given kind with a parsed
\* response whose success is falsy.
Refused(r, kind) ==
  \E h \in BagToSet(handlers) :
    /\ Ends(h, r, kind)
    /\ \E data \in FailureData :
         IF kind = "record" THEN RecordResponse(h, data) ELSE VerifyResponse(h, data)

\* C14: the caption of a row that has one follows the outcome of its
\* action: " Recording..." or " Verifying..." while the action is in
\* flight, " Fingerprint recorded" or " Verified" exactly when the response
\* has a truthy success, " Failed" exactly when the response parsed with a
\* falsy success, and " Error" exactly when the fetch or the JSON decode
\* threw.
C14_CaptionByOutcome ==
  /\ [](\A h \in BagToSet(handlers) :
          present.actionStatus[h.row] =>
            caption[h.row] = IF h.kind = "record" THEN " Recording..."
                             ELSE " Verifying...")
  /\ [][\A r \in Rows :
          present.actionStatus[r] =>
            /\ RecordSucceeds(r) <=>
                 caption[r] # caption'[r] /\ caption'[r] = " Fingerprint recorded"
            /\ VerifySucceeds(r) <=>
                 caption[r] # caption'[r] /\ caption'[r] = " Verified"
            /\ Refused(r, "record") \/ Refused(r, "verify") <=>
                 caption[r] # caption'[r] /\ caption'[r] = " Failed"
            /\ Throws(r, "record") \/ Throws(r, "verify") <=>
                 caption[r] # caption'[r] /\ caption'[r] = " Error"]_vars

\* The state of the abstract per-row machine that a caption stands for.
AbsState(cap) ==
  CASE cap = "" -> "Idle"
    [] cap = " Recording..." -> "Recording"
    [] cap = " Fingerprint recorded" -> "Recorded"
    [] cap = " Verifying..." -> "Verifying"
    [] cap = " Verified" -> "Verified"
    [] cap \in {" Failed", " Error"} -> "Failed"

\* The transitions of the abstract per-row machine.
AbsNext ==
  {<<"Idle", "Recording">>, <<"Recording", "Recorded">>,
   <<"Recorded", "Verifying">>, <<"Verifying", "Verified">>,
   <<"Recording", "Failed">>, <<"Verifying", "Failed">>}

\* The buttons of a row in each state of the abstract machine, as
\* <<record disabled, verify disabled>>.
AbsButtons(st) ==
  CASE st = "Idle" -> <<FALSE, TRUE>>
    [] st = "Recorded" -> <<TRUE, FALSE>>
    [] OTHER -> <<TRUE, TRUE>>

\* C15: from rows rendered with record enabled and verify disabled, the
\* caption and buttons of each row refine the machine Idle -> Recording ->
\* Recorded -> Verifying -> Verified with Failed reachable from Recording
\* and Verifying only: the buttons are those of the row's abstract state,
\* a handler is suspended exactly in Recording and Verifying, and every
\* step is a transition of the machine or a stutter.
C15_RefinesRowMachine ==
  /\ [](\A r \in Rows :
          /\ <<recordDisabled[r], verifyDisabled[r]>> = AbsButtons(AbsState(caption[r]))
          /\ InFlight(r) = IF AbsState(caption[r]) \in {"Recording", "Verifying"}
                           THEN 1 ELSE 0)
  /\ [][\A r \in Rows :
          \/ AbsState(caption'[r]) = AbsState(caption[r])
          \/ <<AbsState(caption[r]), AbsState(caption'[r])>> \in AbsNext]_vars

\* C15 witness: one row has run through to Verified and another has ended
\* in Failed after its verify.
C15_Witness ==
  \E r, q \in Rows :
    /\ AbsState(caption[r]) = "Verified"
    /\ AbsState(caption[q]) = "Failed" /\ "verify" \in clicked[q]

\* The full page with the buttons of each row rendered enabled or disabled
\* in any combination.
InitButtons ==
  InitPage(AllPresent, [Rows -> BOOLEAN], [Rows -> BOOLEAN], [Rows -> {T_Pending}])

SpecButtons == InitButtons /\ [][Next]_vars

\* C16: whatever buttons the rows are rendered with, a record button that
\* was clicked is disabled, no step enables a disabled record button, and
\* a row has at most one record_fingerprint and at most one verify_ekyc
\* request, sent or waiting for its delay.
C16_RecordOneShot ==
  /\ [](\A r \in Rows :
          /\ "record" \in clicked[r] => recordDisabled[r]
          /\ \A kind \in {"record", "verify"} :
               Sent(r, ActionOf(kind)) + Delayed(r, kind) <= 1)
  /\ [][\A r \in Rows : recordDisabled[r] => recordDisabled'[r]]_vars

\* C16 witness: one row, rendered with verify enabled, has sent its verify
\* request without a record, and another row has sent both requests.
C16_Witness ==
  \E r, q \in Rows :
    /\ "record" \notin clicked[r] /\ Sent(r, "verify_ekyc") = 1
    /\ Sent(q, "record_fingerprint") = 1 /\ Sent(q, "verify_ekyc") = 1

\* A step of the handler suspended for row r: its 1500 ms timer fires, its
\* fetch resolves or rejects, or its resp.json() resolves or rejects.
HandlerStep(r) ==
  \E h \in BagToSet(handlers) :
    /\ h.row = r
    /\ \/ RecordSend(h) \/ RecordFetched(h) \/ RecordCatch(h)
       \/ VerifySend(h) \/ VerifyFetched(h) \/ VerifyCatch(h)
       \/ \E data \in Data : RecordResponse(h, data) \/ VerifyResponse(h, data)

\* Timers fire and every issued fetch and JSON decode settles.
LiveSpec ==
  /\ Spec
  /\ WF_vars(TestTimerFire)
  /\ WF_vars(Reload)
  /\ \A r \in Rows : WF_vars(HandlerStep(r))

\* C17: when timers fire and every fetch settles, a row whose caption is
\* " Recording..." or " Verifying..." eventually shows one of the final
\* captions; while it is in flight both of its buttons are disabled.
C17_ClickFinishes ==
  /\ \A r \in Rows :
       caption[r] \in {" Recording...", " Verifying..."}
         ~> caption[r] \in {" Fingerprint recorded", " Verified", " Failed", " Error"}
  /\ [](\A r \in Rows : InFlight(r) > 0 => recordDisabled[r] /\ verifyDisabled[r])

\* Record responses whose label does not read "verified".
RecordDataPlain == {data \in Data : ~IsVerifiedText(StatusText(data, T_Recorded))}

\* The full page with no label reading "verified".
InitPlain ==
  InitPage(AllPresent, {[r \in Rows |-> FALSE]}, {[r \in Rows |-> TRUE]},
           [Rows -> {T_Pending}])

SpecPlain == InitPlain /\ [][NextWith(RecordDataPlain)]_vars

\* C18: when no label reads "verified" at first and no record response
\* carries such a label, the reload is scheduled at most once, and the step
\* that schedules it leaves no handler suspended in any row.
C18_ReloadOnceNothingInFlight ==
  /\ [](reloadTimers + (IF reloaded THEN 1 ELSE 0) <= 1)
  /\ [][reloadTimers' > reloadTimers =>
          /\ reloadTimers = 0 /\ ~reloaded
          /\ handlers' = EmptyBag]_vars

\* C18 witness: the reload is scheduled after the record and the verify of
\* every row have succeeded.
C18_Witness ==
  /\ reloadTimers = 1
  /\ \A r \in Rows : {"record", "verify"} \subseteq succeeded[r]

====
